---- MODULE Spec2Model ----
(***************************************************************************)
(* Model of the control loop of Test1_main.c (dsPIC33E): a 1 ms Timer1     *)
(* tick wakes the CPU from Idle(); each pass of the while(1) body latches  *)
(* the button (RD6, active low) and, once latched, drives LATG11 through a *)
(* counted ON / OFF cycle.                                                 *)
(*                                                                         *)
(* Program state: button, t, LATG11, T1IF, TMR1 and the program counter pc *)
(* (named by source line).  The remaining variables are history variables  *)
(* that only record what the program did; no guard of the program reads    *)
(* them.                                                                   *)
(***************************************************************************)
EXTENDS Integers, Sequences, FiniteSets

VARIABLES
    button,         \* char button            (line 116)
    t,              \* int t                  (line 117)
    LATG11,         \* LATGbits.LATG11        (line 123)
    T1IF,           \* IFS0bits.T1IF          (line 112)
    TMR1,           \* Timer1 count register  (line 155), runs once TON = 1
    pc,             \* source line the CPU executes next
    input,          \* "free": RD6 may read anything; "script": RD6 follows ScriptRD6
    n,              \* history: index of the current loop evaluation (script only)
    reads,          \* history: values sampled from RD6 in the current evaluation
    startButton,    \* history: button when the current evaluation began
    evalNo,         \* history: evaluations begun so far, capped at 2
    tickWakes,      \* history: tick wakes from Idle() since the last evaluation began
    evalsSinceWake, \* history: evaluations begun since the last wake from Idle()
    sinceOn,        \* history: evaluations since (and with) the last OFF->ON switch
    lastGap,        \* history: evaluations between the last two OFF->ON switches
    sinceArm,       \* history: evaluations since (and with) the arming one, per cycle
    acks,           \* history: registers written since the last wake from Idle()
    wakePending     \* history: the flag of the tick that woke the CPU is still set

vars == <<button, t, LATG11, T1IF, TMR1, pc, input, n, reads, startButton,
          evalNo, tickWakes, evalsSinceWake, sinceOn, lastGap, sinceArm,
          acks, wakePending>>

prog == <<button, t, LATG11>>
tick == <<T1IF, TMR1>>
hist == <<n, reads, startButton, evalNo, tickWakes, evalsSinceWake,
          sinceOn, lastGap, sinceArm>>
ackHist == <<acks, wakePending>>

----------------------------------------------------------------------------
(* Program constants *)

\* else if (0 < t && t < 1000)
ON_TICKS == 1000

\* else if (t >= 1000 && t < 3000)
CYCLE_TICKS == 3000

\* int is 16 bits wide on this target
INT_MAX == 32767

(* Bounds of the model *)

\* PR1 = 50000 timer counts per period, scaled down; the timer runs
\* asynchronously to the CPU, so only "some counts, then a match" matters.
PR1 == 1

\* the scripted tick stream: RD6 reads 1 on evaluations 1..UnpressedEvals, 0 after
UnpressedEvals == 50

\* the scripted tick stream stops after this many evaluations
MaxEval == 3060

\* cap of the evaluation counters sinceOn / lastGap
GapCap == 3100

----------------------------------------------------------------------------
(* Helpers of the loop body *)

\* t++ on a 16-bit int (two's complement wrap of the XC16 build)
Inc16(x) == IF x = INT_MAX THEN -INT_MAX - 1 ELSE x + 1

\* (button == 0) && ... : the && reads PORTDbits.RD6 only when button == 0
\* (variant: RD6 is read whatever button is)
ReadsRD6_NoShortCircuit == TRUE
ReadsRD6 == button = 0

\* if (button == 1)
\* (variant: the guard is missing)
ArmedGuard_Always == TRUE
ArmedGuard == button = 1

\* if (t == 0)
OnEdge(x) == x = 0

\* else if (0 < t && t < 1000)
\* (variant: <= for <)
OnHold_OffByOne(x) == 0 < x /\ x <= ON_TICKS
OnHold(x) == 0 < x /\ x < ON_TICKS

\* else if (t >= 1000 && t < 3000)
\* (variant: the upper bound is missing)
OffHold_NoUpperBound(x) == x >= ON_TICKS
OffHold(x) == x >= ON_TICKS /\ x < CYCLE_TICKS

\* the value of t after the if-chain of lines 135-149
\* (variant: the final else does not reset t)
StepT_NoReset(x) == IF OnEdge(x) \/ OnHold(x) \/ OffHold(x) THEN Inc16(x) ELSE x
StepT(x) == IF OnEdge(x) \/ OnHold(x) \/ OffHold(x) THEN Inc16(x) ELSE 0

\* the value of LATG11 after the if-chain of lines 135-149
\* (variant: line 142 does not write LATG11)
StepOut_NoOffWrite(x, out) == IF OnEdge(x) THEN 1 ELSE IF OnHold(x) \/ OffHold(x) THEN out ELSE 0
StepOut(x, out) == IF OnEdge(x) THEN 1 ELSE IF OnHold(x) THEN out ELSE 0

\* Idle() returns when an enabled interrupt is pending: T1IE = 1, so when T1IF = 1
\* (variant: Idle() returns without waiting)
IdleWake_NoWait == TRUE
IdleWake == T1IF = 1

\* IFS0bits.T1IF = 0 : the value written to the flag
\* (variant: the write leaves the flag as it is)
T1IFAck_Kept == T1IF
T1IFAck == 0

\* what a read of PORTDbits.RD6 can return in evaluation k
ScriptRD6(k) == IF k <= UnpressedEvals THEN 1 ELSE 0
Samples(k) == IF input = "free" THEN {0, 1} ELSE {ScriptRD6(k)}

----------------------------------------------------------------------------
(* Initial state: main() up to the while (1) *)

InitProg ==
    /\ button = 0
    /\ t = 0
    /\ LATG11 = 0
    /\ T1IF = 0
    /\ TMR1 = 0
    /\ pc = "L129"

InitHist ==
    /\ n = 0
    /\ reads = <<>>
    /\ startButton = 0
    /\ evalNo = 0
    /\ tickWakes = 0
    /\ evalsSinceWake = 0
    /\ sinceOn = 0
    /\ lastGap = 0
    /\ sinceArm = 0
    /\ acks = <<>>
    /\ wakePending = FALSE

Init == InitProg /\ InitHist /\ input = "free"

InitScript == InitProg /\ InitHist /\ input = "script"

----------------------------------------------------------------------------
(* The loop body, one action per step *)

\* history kept when an evaluation begins
BeginEval ==
    /\ n' = IF input = "script" THEN n + 1 ELSE n
    /\ startButton' = button
    /\ evalNo' = IF evalNo < 2 THEN evalNo + 1 ELSE 2
    /\ tickWakes' = 0
    /\ evalsSinceWake' = IF evalsSinceWake < 2 THEN evalsSinceWake + 1 ELSE 2

\* line 129: if ((button == 0) && (PORTDbits.RD6 == 1)) { }
Cond129 ==
    /\ pc = "L129"
    /\ input = "script" => n < MaxEval
    /\ BeginEval
    /\ IF ReadsRD6
         THEN \E v \in Samples(n') :
                /\ reads' = <<v>>
                /\ pc' = IF v = 1 THEN "L134" ELSE "L131"
         ELSE /\ reads' = <<>>
              /\ pc' = "L131"
    /\ UNCHANGED <<prog, tick, input, sinceOn, lastGap, sinceArm, ackHist>>

\* line 131: else if ((button == 0) && (PORTDbits.RD6 == 0)) { button = 1; }
Cond131 ==
    /\ pc = "L131"
    /\ IF ReadsRD6
         THEN \E v \in Samples(n) :
                /\ reads' = Append(reads, v)
                /\ button' = IF v = 0 THEN 1 ELSE button
         ELSE UNCHANGED <<reads, button>>
    /\ pc' = "L134"
    /\ UNCHANGED <<t, LATG11, tick, input, n, startButton, evalNo, tickWakes,
                   evalsSinceWake, sinceOn, lastGap, sinceArm, ackHist>>

\* lines 134-150: if (button == 1) { the if-chain on t }
Cycle ==
    /\ pc = "L134"
    /\ IF ArmedGuard
         THEN /\ t' = StepT(t)
              /\ LATG11' = StepOut(t, LATG11)
         ELSE UNCHANGED <<t, LATG11>>
    /\ pc' = "L153"
    \* history: this evaluation is complete
    /\ IF LATG11 = 0 /\ LATG11' = 1
         THEN /\ sinceOn' = 1
              /\ lastGap' = sinceOn
         ELSE /\ sinceOn' = IF sinceOn = 0 \/ sinceOn >= GapCap THEN sinceOn ELSE sinceOn + 1
              /\ lastGap' = lastGap
    /\ sinceArm' = IF button = 0 THEN 0 ELSE (sinceArm % (CYCLE_TICKS + 1)) + 1
    /\ UNCHANGED <<button, tick, input, n, reads, startButton, evalNo, tickWakes,
                   evalsSinceWake, ackHist>>

\* line 153: Idle();
Idle ==
    /\ pc = "L153"
    /\ IdleWake
    /\ pc' = "L154"
    /\ tickWakes' = IF T1IF = 1 /\ tickWakes < 2 THEN tickWakes + 1 ELSE tickWakes
    /\ evalsSinceWake' = 0
    /\ acks' = <<>>
    /\ wakePending' = (T1IF = 1)
    /\ UNCHANGED <<prog, tick, input, n, reads, startButton, evalNo,
                   sinceOn, lastGap, sinceArm>>

\* line 154: IFS0bits.T1IF = 0;
ClearT1IF ==
    /\ pc = "L154"
    /\ T1IF' = T1IFAck
    /\ pc' = "L155"
    /\ acks' = Append(acks, "T1IF")
    /\ wakePending' = (wakePending /\ T1IF' = 1)
    /\ UNCHANGED <<prog, TMR1, input, hist>>

\* line 155: TMR1 = 0;  and back to the top of the loop
\* (variant: the statement writes t instead of TMR1)
ClearTMR1_WritesT ==
    /\ pc = "L155"
    /\ t' = 0
    /\ pc' = "L129"
    /\ acks' = Append(acks, "TMR1")
    /\ UNCHANGED <<button, LATG11, tick, input, hist, wakePending>>
ClearTMR1 ==
    /\ pc = "L155"
    /\ TMR1' = 0
    /\ pc' = "L129"
    /\ acks' = Append(acks, "TMR1")
    /\ UNCHANGED <<prog, T1IF, input, hist, wakePending>>

\* Timer1 (TON = 1, prescale 1:1): counts, and on a period match sets T1IF
T1Count ==
    /\ IF TMR1 >= PR1
         THEN TMR1' = 0 /\ T1IF' = 1
         ELSE TMR1' = TMR1 + 1 /\ T1IF' = T1IF
    /\ UNCHANGED <<prog, pc, input, hist, ackHist>>

Cpu == Cond129 \/ Cond131 \/ Cycle \/ Idle \/ ClearT1IF \/ ClearTMR1

Next ==
    \/ Cond129
    \/ Cond131
    \/ Cycle
    \/ Idle
    \/ ClearT1IF
    \/ ClearTMR1
    \/ T1Count

\* any tick stream, any behaviour of the input line
Spec == Init /\ [][Next]_vars

\* the CPU keeps executing and the timer keeps counting
FairSpec == Init /\ [][Next]_vars /\ WF_vars(Cpu) /\ WF_vars(T1Count)

\* the scripted tick stream
ScriptSpec == InitScript /\ [][Next]_vars

----------------------------------------------------------------------------
(* The steps and states the claims speak about *)

\* this step is the state-machine evaluation of an armed loop pass (lines 134-150)
ArmedEval == pc = "L134" /\ pc' = "L153" /\ button = 1

\* this step begins a loop evaluation
EvalBegins == pc = "L129" /\ pc' # "L129"

\* the current loop evaluation is complete: the CPU is at Idle() or acknowledging
EvalDone == pc \in {"L153", "L154", "L155"}

\* this step belongs to the tick side: a Timer1 count or match (the CPU does
\* not move), the wake from Idle(), or one of the two acknowledgement writes
TickStep == pc' = pc \/ pc \in {"L153", "L154", "L155"}

\* this step belongs to the state-machine evaluation (lines 129-150)
EvalStep == pc \in {"L129", "L131", "L134"} /\ pc' # pc

----------------------------------------------------------------------------
\* C1: once armed, two consecutive evaluations that switch LATG11 from OFF to
\* ON are exactly 3000 evaluations apart, in every cycle.
C1_Period3000 == lastGap # 0 => lastGap = 3000

\* C2: in the scripted stream (RD6 not pressed on evaluations 1..50, pressed
\* from 51 on) the output is OFF after evaluations 1..50, ON after 51, OFF
\* from evaluation 1051 and back ON at evaluation 3051.
C2_Scenario ==
    EvalDone =>
        /\ n \in 1 .. 50 => LATG11 = 0
        /\ n = 51 => LATG11 = 1
        /\ n = 1050 => LATG11 = 1
        /\ n = 1051 => LATG11 = 0
        /\ n = 3051 => LATG11 = 1

\* C3: the armed evaluation with t = 0 sets the output ON and t to 1; with
\* 0 < t < 1000 it leaves the output ON; the one with t = 1000 (and no other)
\* switches the output OFF; with 1000 <= t < 3000 the output is left OFF; the
\* one with t = 3000 (and no other) sets t back to 0, and the evaluation after
\* it, done with t = 0, sets the output ON again.
C3_Phases ==
    [][ArmedEval =>
          /\ t = 0 => LATG11' = 1 /\ t' = 1
          /\ (0 < t /\ t < 1000) => LATG11 = 1 /\ LATG11' = 1 /\ t' = t + 1
          /\ t = 1000 => LATG11 = 1 /\ LATG11' = 0
          /\ (LATG11 = 1 /\ LATG11' = 0) => t = 1000
          /\ (1000 <= t /\ t < 3000) => LATG11' = 0 /\ t' = t + 1
          /\ t = 3000 => t' = 0 /\ LATG11' = 0
          /\ (t # 0 /\ t' = 0) => t = 3000
          /\ t \in 0 .. 3000
       ]_vars

\* C3 witness: a second cycle has begun (the evaluation after the reset made
\* with t = 3000 has switched the output ON again).
C3_Witness == button = 1 /\ t = 1 /\ LATG11 = 1 /\ lastGap > 0

\* C4: while button = 0, t is 0 and the output is OFF, whatever the number of
\* ticks; t changes only in a step taken with button = 1.
C4_Unarmed ==
    /\ [](button = 0 => t = 0 /\ LATG11 = 0)
    /\ [][t' # t => button = 1]_vars

\* C4 witness: still unarmed after a tick wake and further evaluations.
C4_Witness == button = 0 /\ evalNo = 2 /\ pc = "L153" /\ reads = <<0, 1>>

\* C5: once button is 1 it stays 1, no later step samples RD6, and the output
\* after k evaluations since arming is the same whatever the input line does:
\* ON for k in 1..1000 of each cycle, OFF for the rest of it.
C5_Latch ==
    /\ [][button = 1 => button' = 1 /\ Len(reads') <= Len(reads)]_vars
    /\ [](EvalDone /\ button = 1 => LATG11 = IF sinceArm <= 1000 THEN 1 ELSE 0)

\* C5 witness: armed, in the OFF part of a later cycle.
C5_Witness == button = 1 /\ sinceArm = 2000 /\ lastGap > 0 /\ EvalDone

\* the output as a function of (button, t)
OutputOf(b, x) == IF b = 1 /\ 1 <= x /\ x <= 1000 THEN 1 ELSE 0

\* C6: between loop evaluations the output is a function of (button, t) alone:
\* ON exactly when button = 1 and 1 <= t <= 1000.
C6_OutputFunction == (EvalDone \/ pc = "L129") => LATG11 = OutputOf(button, t)

\* C6 witness: armed with t = 0 between evaluations (after the reset), which
\* shares (button, t) with the middle of the arming evaluation; output OFF.
C6_Witness == EvalDone /\ button = 1 /\ t = 0 /\ LATG11 = 0

\* C7: under fair execution of the CPU and the timer, from every armed state
\* the output is eventually ON and eventually OFF; as button stays 1 this
\* repeats forever.
C7_Forever ==
    /\ (button = 1) ~> (LATG11 = 1)
    /\ (button = 1) ~> (LATG11 = 0)

\* C7 witness: armed and ON again in a later cycle.
C7_Witness == button = 1 /\ LATG11 = 1 /\ lastGap > 0 /\ t = 500

\* C8 as stated: every evaluation begins after exactly one tick wake of its own,
\* and exactly one evaluation has run since the last wake whenever Idle() is
\* entered.
C8_Original ==
    /\ [][EvalBegins => tickWakes = 1]_vars
    /\ [](pc = "L153" => evalsSinceWake = 1)

\* C8 amended: every evaluation but the first one (made on loop entry, before
\* any Idle()) begins after exactly one tick wake of its own, and exactly one
\* evaluation has run since the last wake whenever Idle() is entered.
C8_OnePerTick ==
    /\ [][EvalBegins => tickWakes = IF evalNo = 0 THEN 0 ELSE 1]_vars
    /\ [](pc = "L153" => evalsSinceWake = 1)

\* C8 witness: a later evaluation, begun after a tick wake, is complete.
C8_Witness == evalNo = 2 /\ pc = "L153" /\ T1IF = 0 /\ button = 1

\* C9: an evaluation that starts unarmed samples RD6 exactly once.
C9_SingleSample == (EvalDone /\ startButton = 0) => Len(reads) = 1

\* C10: an evaluation that starts unarmed and reads pressed arms and performs
\* the t = 0 action (button 1, output ON, t 1); one that reads not pressed
\* leaves button, t and the output as they were.
C10_FallThrough ==
    (EvalDone /\ startButton = 0) =>
        /\ (\E i \in DOMAIN reads : reads[i] = 0) =>
               button = 1 /\ t = 1 /\ LATG11 = 1
        /\ (\E i \in DOMAIN reads : reads[i] = 1) =>
               button = 0 /\ t = 0 /\ LATG11 = 0

\* C11: in every reachable state the counter t lies in [0, 3000), that is
\* 0 <= t <= 2999.
C11_RangeBelow3000 == 0 <= t /\ t <= 2999

\* C12: in every cycle the output is held ON for exactly 1000 consecutive
\* ticks: it is ON after the evaluation that switches it ON and after each of
\* the 999 evaluations that follow, and the 1000th evaluation after the ON
\* edge (and no other) switches it OFF.
C12_OnFor1000 ==
    /\ []((EvalDone /\ sinceOn > 0) => (LATG11 = 1 <=> sinceOn <= 1000))
    /\ [][(LATG11 = 1 /\ LATG11' = 0) => sinceOn = 1000]_vars
    /\ [][(LATG11 = 0 /\ LATG11' = 1) => (ArmedEval /\ t = 0)]_vars

\* C12 witness: in a later cycle the 1000th evaluation after the ON edge has
\* just switched the output OFF.
C12_Witness == EvalDone /\ sinceOn = 1001 /\ LATG11 = 0 /\ lastGap > 0

\* C13: after every wake from Idle() the loop clears T1IF and then resets
\* TMR1, in this order, and both are done before the next evaluation begins;
\* no evaluation begins with the flag of the tick that woke it still set.
C13_AckOrder ==
    /\ [][EvalBegins =>
            /\ ~wakePending
            /\ evalNo > 0 => acks = <<"T1IF", "TMR1">>]_vars
    /\ [](pc = "L154" => acks = <<>>)
    /\ [](pc = "L155" => acks = <<"T1IF">>)

\* C13 witness: an evaluation woken by a tick is running, after both
\* acknowledgement steps, and the waking tick's flag is no longer set.
C13_Witness ==
    /\ pc = "L134"
    /\ evalNo = 2
    /\ acks = <<"T1IF", "TMR1">>
    /\ ~wakePending
    /\ button = 1

\* C14: the tick side (timer firing, wake from Idle(), T1IF = 0, TMR1 = 0)
\* leaves button, t and LATG11 unchanged, and the state-machine evaluation
\* leaves T1IF and TMR1 unchanged.
C14_Separation ==
    /\ [][TickStep => UNCHANGED <<button, t, LATG11>>]_vars
    /\ [][EvalStep => UNCHANGED <<T1IF, TMR1>>]_vars

\* C14 witness: the cycle is running (t in the OFF phase) and the tick that
\* woke the CPU has been acknowledged.
C14_Witness ==
    /\ button = 1
    /\ t = 1500
    /\ pc = "L129"
    /\ acks = <<"T1IF", "TMR1">>
    /\ T1IF = 0
    /\ TMR1 = 0

\* C15: t is never negative and never exceeds 3000, so the 16-bit int never
\* overflows, and the final else of the if-chain is entered only with t = 3000.
C15_NoOverflow ==
    /\ [](0 <= t /\ t <= 3000 /\ t < INT_MAX)
    /\ [][(/\ ArmedEval
           /\ ~(t = 0)
           /\ ~(0 < t /\ t < 1000)
           /\ ~(t >= 1000 /\ t < 3000)) => t = 3000]_vars

\* C15 witness: the final else has just been taken (t was 3000, is 0 again).
C15_Witness == EvalDone /\ button = 1 /\ t = 0 /\ sinceArm = 3001

====
